---- MODULE Spec2Model ----
(***************************************************************************)
(* The Tableau embed plugin of src/src/plugin.tsx as a state machine: the  *)
(* URL builder, the prompt-based picker, one TableauElement widget         *)
(* instance (its React state, its refs, the closures of each render and    *)
(* the listeners it leaves on window) and the plugin's insert and edit     *)
(* flows, together with the host callbacks they invoke.                    *)
(*                                                                         *)
(* JavaScript numbers are kept in HALF units: the integer h stands for the *)
(* number h/2, so that 300.5 (a measured container width) is 601 and       *)
(* Math.round is not the identity.  Px(n) is the whole number n.           *)
(***************************************************************************)
EXTENDS Integers, Sequences, FiniteSets, TLC

\* ------------------------------------------------------------------ bounds
\* Renders of the widget after its mount render (each change of its state or
\* props is one render): the widget is followed until it has rendered this
\* many times, and its handlers are not run after that.
MaxRenders == 2

\* --------------------------------------------------------- program constants
MIN_WIDTH == 240
MIN_HEIGHT == 200
DEFAULT_HEIGHT == 520
END_WIDTH_FALLBACK == 520
PRESET_SMALL == 400
PRESET_MEDIUM == 520
PRESET_LARGE == 680
PLUGIN_NAME == "tableau_embed"
DEFAULT_WIDTH == "100%"

Px(n) == 2 * n

\* ------------------------------------------------------ JavaScript values
Num(h) == [t |-> "num", n |-> h, s |-> ""]
Str(x) == [t |-> "str", n |-> 0, s |-> x]
Bool(b) == [t |-> "bool", n |-> IF b THEN 1 ELSE 0, s |-> ""]
NaN == [t |-> "nan", n |-> 0, s |-> ""]
Undef == [t |-> "undef", n |-> 0, s |-> ""]
Null == [t |-> "null", n |-> 0, s |-> ""]

\* typeof v === "number"
IsNumber(v) == v.t \in {"num", "nan"}

\* v ?? d
Coalesce(v, d) == IF v.t \in {"undef", "null"} THEN d ELSE v

\* the truthiness that || and ?: test
Truthy(v) ==
  CASE v.t = "num" -> v.n # 0
    [] v.t = "str" -> v.s # ""
    [] v.t = "bool" -> v.n = 1
    [] OTHER -> FALSE

\* v || d
OrElse(v, d) == IF Truthy(v) THEN v ELSE d

\* Math.round(x) = floor(x + 0.5), on half units
MathRound(h) == 2 * ((h + 1) \div 2)

\* Math.max(a, b)
MathMax(a, b) == IF a >= b THEN a ELSE b

\* ------------------------------------------------------------------ strings
CharAt(s, i) == SubSeq(s, i, i)

\* s.endsWith("%"), /%$/.test(s)
EndsWithPercent(s) == Len(s) > 0 /\ CharAt(s, Len(s)) = "%"

RECURSIVE TrimLeft(_)
TrimLeft(s) ==
  IF Len(s) > 0 /\ CharAt(s, 1) = " " THEN TrimLeft(SubSeq(s, 2, Len(s))) ELSE s

RECURSIVE TrimRight(_)
TrimRight(s) ==
  IF Len(s) > 0 /\ CharAt(s, Len(s)) = " "
  THEN TrimRight(SubSeq(s, 1, Len(s) - 1))
  ELSE s

\* s.trim()
Trim(s) == TrimRight(TrimLeft(s))

Digits == "0123456789"
UpperCase == "ABCDEFGHIJKLMNOPQRSTUVWXYZ"
LowerCase == "abcdefghijklmnopqrstuvwxyz"

\* the position of character c in string s, 0 when absent
IndexOf(s, c) ==
  IF \E i \in 1..Len(s) : CharAt(s, i) = c
  THEN CHOOSE i \in 1..Len(s) : CharAt(s, i) = c
  ELSE 0

IsDigits(s) == Len(s) > 0 /\ \A i \in 1..Len(s) : IndexOf(Digits, CharAt(s, i)) > 0

RECURSIVE DigitsValue(_)
DigitsValue(s) ==
  IF Len(s) = 0 THEN 0
  ELSE 10 * DigitsValue(SubSeq(s, 1, Len(s) - 1))
       + (IndexOf(Digits, CharAt(s, Len(s))) - 1)

\* an unsigned decimal literal: digits, with an optional ".5"
UnsignedValue(s) ==
  IF IsDigits(s) THEN Num(Px(DigitsValue(s)))
  ELSE IF Len(s) > 2 /\ SubSeq(s, Len(s) - 1, Len(s)) = ".5"
          /\ IsDigits(SubSeq(s, 1, Len(s) - 2))
       THEN Num(Px(DigitsValue(SubSeq(s, 1, Len(s) - 2))) + 1)
       ELSE NaN

\* Number(s) of a string: white space trimmed, "" is 0, a signed decimal
\* literal is its value, anything else is NaN
StringToNumber(s) ==
  LET t == Trim(s) IN
  IF t = "" THEN Num(0)
  ELSE IF CharAt(t, 1) = "-"
       THEN LET u == UnsignedValue(SubSeq(t, 2, Len(t))) IN
            IF u.t = "num" THEN Num(0 - u.n) ELSE NaN
       ELSE UnsignedValue(t)

\* Number(v)
ToNumber(v) ==
  CASE v.t = "num" -> v
    [] v.t = "str" -> StringToNumber(v.s)
    [] v.t = "bool" -> Num(Px(v.n))
    [] v.t = "null" -> Num(0)
    [] OTHER -> NaN

RECURSIVE NatToString(_)
NatToString(k) ==
  IF k < 10 THEN CharAt(Digits, k + 1)
  ELSE NatToString(k \div 10) \o CharAt(Digits, (k % 10) + 1)

\* String(x) of a number given in half units
NumberToString(h) ==
  LET a == IF h < 0 THEN 0 - h ELSE h IN
  (IF h < 0 THEN "-" ELSE "")
    \o NatToString(a \div 2)
    \o (IF a % 2 = 1 THEN ".5" ELSE "")

\* String(v)
JsString(v) ==
  CASE v.t = "num" -> NumberToString(v.n)
    [] v.t = "str" -> v.s
    [] v.t = "bool" -> IF v.n = 1 THEN "true" ELSE "false"
    [] v.t = "nan" -> "NaN"
    [] v.t = "null" -> "null"
    [] OTHER -> "undefined"

RECURSIVE ToLowerCase(_)
ToLowerCase(s) ==
  IF Len(s) = 0 THEN ""
  ELSE LET c == CharAt(s, 1)
           i == IndexOf(UpperCase, c)
       IN (IF i > 0 THEN CharAt(LowerCase, i) ELSE c)
            \o ToLowerCase(SubSeq(s, 2, Len(s)))

\* encodeURIComponent of one ASCII character: the unreserved characters stay
EncodeChar(c) ==
  CASE c = " " -> "%20"
    [] c = "/" -> "%2F"
    [] c = "%" -> "%25"
    [] c = "?" -> "%3F"
    [] c = "&" -> "%26"
    [] c = "=" -> "%3D"
    [] c = ":" -> "%3A"
    [] c = "#" -> "%23"
    [] c = "+" -> "%2B"
    [] OTHER -> c

RECURSIVE encodeURIComponent(_)
encodeURIComponent(s) ==
  IF Len(s) = 0 THEN ""
  ELSE EncodeChar(CharAt(s, 1)) \o encodeURIComponent(SubSeq(s, 2, Len(s)))

\* server.replace(/\/+$/, ""): a run of trailing slashes removed instead of one
StripTrailingSlashes(s) ==
  IF Len(s) > 1 /\ SubSeq(s, Len(s) - 1, Len(s)) = "//" THEN SubSeq(s, 1, Len(s) - 2)
  ELSE IF Len(s) > 0 /\ CharAt(s, Len(s)) = "/" THEN SubSeq(s, 1, Len(s) - 1)
  ELSE s

\* server.replace(/\/$/, "")
StripTrailingSlash(s) ==
  IF Len(s) > 0 /\ CharAt(s, Len(s)) = "/" THEN SubSeq(s, 1, Len(s) - 1) ELSE s

\* -------------------------------------------------------------- URL builder
buildTableauUrl(server, workbook, view, toolbar) ==
  LET base == StripTrailingSlash(server) \o "/views/"
                \o encodeURIComponent(workbook) \o "/" \o encodeURIComponent(view)
  IN base \o "?:embed=y&:showVizHome=no"
       \o (IF Truthy(toolbar) THEN "&:toolbar=" \o JsString(toolbar) ELSE "")

\* ------------------------------------------------------------ node shapes
\* TableauParams, every field a JavaScript value (Undef when absent)
Attrs(server, workbook, view, w, h, toolbar, inline, label) ==
  [server |-> server, workbook |-> workbook, view |-> view, width |-> w,
   height |-> h, toolbar |-> toolbar, inline |-> inline, label |-> label]

\* {} as Partial<TableauParams>
EmptyAttrs == Attrs(Undef, Undef, Undef, Undef, Undef, Undef, Undef, Undef)

\* TableauEmbedNode; uid stands for the keys the host adds to its own nodes
Node(type, uid, attrs) ==
  [type |-> type, uid |-> uid, attrs |-> attrs, children |-> <<"">>]

\* an absent element (ctx.element undefined)
NoElement == [type |-> "", uid |-> "", attrs |-> EmptyAttrs, children |-> <<>>]

\* ------------------------------------------------------------------ picker
Preset(label, server, workbook, view) ==
  [label |-> label, server |-> server, workbook |-> workbook, view |-> view]

PUBLIC_PRESETS ==
  << Preset("Superstore - Overview", "https://public.tableau.com",
            "Superstore_116", "Overview"),
     Preset("Regional Sample - Storms", "https://public.tableau.com",
            "RegionalSampleWorkbook", "Storms"),
     Preset("World Indicators - GDP per capita", "https://public.tableau.com",
            "WorldIndicators", "GDPpercapita"),
     Preset("COVID-19 - Dashboard1", "https://public.tableau.com",
            "COVID-19Cases_15855288078310", "Dashboard1"),
     Preset("Global Superstore - OrdersDashboard", "https://public.tableau.com",
            "GlobalSuperstoreOrders", "OrdersDashboard") >>

\* what the user does with one window.prompt: cancel it, accept the
\* pre-filled default, or type a text
Cancel == [k |-> "cancel", s |-> ""]
Accept == [k |-> "accept", s |-> ""]
Typed(text) == [k |-> "text", s |-> text]

\* window.prompt(message, default): null on cancel
prompt(a, default) ==
  CASE a.k = "cancel" -> Null
    [] a.k = "accept" -> Str(JsString(default))
    [] OTHER -> Str(a.s)

\* the answers to the picker's prompts, in the order it asks them
Answers(choice, server, workbook, view, w, h, toolbar, inline) ==
  [choice |-> choice, server |-> server, workbook |-> workbook, view |-> view,
   width |-> w, height |-> h, toolbar |-> toolbar, inline |-> inline]

Picked(p) == [k |-> "picked", p |-> p]
PickedNull == [k |-> "null", p |-> EmptyAttrs]
PickedThrow == [k |-> "throw", p |-> EmptyAttrs]

\* the preset branch of openTableauPicker
PickPreset(defaults, choice) ==
  IF choice.n % 2 = 1
  THEN PickedThrow   \* PUBLIC_PRESETS[choice - 1] is undefined: preset.server throws
  ELSE LET preset == PUBLIC_PRESETS[choice.n \div 2] IN
       Picked(Attrs(Str(preset.server), Str(preset.workbook), Str(preset.view),
                    Coalesce(defaults.width, Str(DEFAULT_WIDTH)),
                    Coalesce(defaults.height, Num(Px(DEFAULT_HEIGHT))),
                    Coalesce(defaults.toolbar, Str("bottom")),
                    Coalesce(defaults.inline, Bool(FALSE)),
                    Str(preset.label)))

\* the custom branch of openTableauPicker
PickCustom(defaults, ans) ==
  LET server == OrElse(prompt(ans.server,
                              Coalesce(defaults.server, Str("https://public.tableau.com"))),
                       Str(""))
      workbook == OrElse(prompt(ans.workbook,
                                Coalesce(defaults.workbook, Str("Superstore_116"))),
                         Str(""))
      view == OrElse(prompt(ans.view, Coalesce(defaults.view, Str("Overview"))), Str(""))
      widthStr == OrElse(prompt(ans.width,
                                Str(JsString(Coalesce(defaults.width, Str(DEFAULT_WIDTH))))),
                         Str(DEFAULT_WIDTH))
      heightStr == OrElse(prompt(ans.height,
                                 Str(JsString(Coalesce(defaults.height,
                                                       Num(Px(DEFAULT_HEIGHT)))))),
                          Str("520"))
      toolbarIn == OrElse(prompt(ans.toolbar, Coalesce(defaults.toolbar, Str("bottom"))),
                          Str("bottom"))
      inline == ToLowerCase(OrElse(prompt(ans.inline,
                                          IF Truthy(defaults.inline) THEN Str("y")
                                          ELSE Str("n")),
                                   Str("n")).s) = "y"
      w == IF EndsWithPercent(widthStr.s) THEN widthStr
           ELSE OrElse(ToNumber(widthStr), Str(DEFAULT_WIDTH))
      h == OrElse(ToNumber(heightStr), Num(Px(DEFAULT_HEIGHT)))
      toolbar == IF toolbarIn.s = "top" \/ toolbarIn.s = "hidden" THEN toolbarIn
                 ELSE Str("bottom")
  IN IF ~Truthy(server) THEN PickedNull
     ELSE IF ~Truthy(workbook) THEN PickedNull
     ELSE IF ~Truthy(view) THEN PickedNull
     ELSE Picked(Attrs(server, workbook, view, w, h, toolbar, Bool(inline),
                       Str(workbook.s \o "/" \o view.s)))

openTableauPicker(defaults, ans) ==
  LET choiceRaw == prompt(ans.choice, Str("1"))
      choice == ToNumber(choiceRaw)
  IN IF choice.t # "nan" /\ choice.n >= Px(1) /\ choice.n <= Px(Len(PUBLIC_PRESETS))
     THEN PickPreset(defaults, choice)
     ELSE PickCustom(defaults, ans)

\* the node onClick and the exec handler build from a picker result
NodeOfPicked(picked) ==
  Node(PLUGIN_NAME, "",
       Attrs(picked.server, picked.workbook, picked.view, picked.width,
             picked.height, picked.toolbar, Bool(Truthy(picked.inline)),
             picked.label))

\* ------------------------------------------------------------ input sets
\* pointer positions (clientX, clientY): of the mousedown on the handle, and
\* of the mousemove events
DownPoints == { <<Px(200), Px(150)>> }
Points == { <<Px(0), Px(0)>>, <<Px(700), Px(550)>> }

\* widths getBoundingClientRect() reports for the preview container
ContainerWidths == { Px(180), Px(600) + 1 }

\* attrs of nodes already in the document when the host renders them
HostAttrs ==
  { Attrs(Str("https://t.example/"), Str("Sales 2024"), Str("KPI"), Undef,
          Str("abc"), Undef, Undef, Undef),
    Attrs(Str("https://t.example/"), Str("Sales 2024"), Str("KPI"), Num(Px(100)),
          Num(Px(300)), Str("top"), Bool(FALSE), Str("Sales")) }

\* texts typed into the width and the height field
WidthInputs == { " 50% ", "100.5", "abc" }
HeightInputs == { "", "50" }

\* the picker sessions explored
PickerAnswers ==
  { Answers(Accept, Cancel, Cancel, Cancel, Cancel, Cancel, Cancel, Cancel),
    Answers(Typed("6"), Cancel, Accept, Accept, Accept, Accept, Accept, Accept),
    Answers(Cancel, Accept, Typed(""), Accept, Accept, Accept, Accept, Accept),
    Answers(Typed("x"), Accept, Accept, Cancel, Accept, Accept, Accept, Accept),
    Answers(Typed("0"), Typed("https://t.example/"), Typed("Sales 2024"),
            Typed("KPI/Q1"), Accept, Typed("680"), Typed("hidden"), Typed("Y")),
    Answers(Typed("6"), Accept, Accept, Accept, Typed("100"), Typed("50"),
            Accept, Accept) }

\* the host object: which of its callbacks are functions
Host(u, i, d, e) == [updateNode |-> u, insertNode |-> i, deleteNode |-> d, exec |-> e]
Hosts == { Host(TRUE, TRUE, TRUE, TRUE), Host(FALSE, TRUE, TRUE, TRUE),
           Host(TRUE, FALSE, TRUE, FALSE), Host(FALSE, FALSE, FALSE, FALSE) }

\* ------------------------------------------------------------------- state
VARIABLES
  phase,      \* "none": not rendered yet; "mounted"; "foreign": rendered for
              \* a node of another type; "unmounted": torn down
  element,    \* props.element: the document node this widget renders
  width,      \* useState: local width
  height,     \* useState: local height
  renderId,   \* the number of the committed render; render 0 is the mount
  dragRef,    \* dragRef.current (set = FALSE is null)
  listeners,  \* the (onDragMove, onDragEnd) pairs on window, in the order
              \* they were added, each the closure of the render that made it
  rte,        \* the host capabilities (props.rte, and ctx of the exec handler)
  inserted,   \* the picker result the insert flow placed in this node
  edited,     \* whether the edit flow has replaced this node's attrs since
  downWidth,  \* the local width at the latest mousedown on the handle
  params,     \* the argument of the latest buildTableauUrl call
  url,        \* what that call returned: the src of the iframe on display
  last        \* the last handler run: what it was given and the host calls
              \* it made

vars == <<phase, element, width, height, renderId, dragRef, listeners, rte,
          inserted, edited, downWidth, params, url, last>>

\* the widget is still followed
Live == renderId < MaxRenders

NoDrag == [set |-> FALSE, startX |-> 0, startY |-> 0, startW |-> 0, startH |-> 0]

Call(fn, node) == [fn |-> fn, node |-> node]

\* the record of one handler run: op, the handler; calls, the host calls it
\* made, in order; picked, how its picker session ended; leftEmpty, whether
\* that session left a required free-form field empty; ctxType, the type of
\* the element the exec handler ran for; measured, the width the preview
\* container had when the handler measured it (or, for mouseup, could have)
Ran(op, calls, picked, leftEmpty, ctxType, measured) ==
  [op |-> op, calls |-> calls, picked |-> picked, leftEmpty |-> leftEmpty,
   ctxType |-> ctxType, measured |-> measured]

\* a handler that runs no picker and measures nothing
RanPlain(op, calls) == Ran(op, calls, "", FALSE, "", Undef)

\* the argument object of buildTableauUrl
Params(server, workbook, view, toolbar) ==
  [server |-> server, workbook |-> workbook, view |-> view, toolbar |-> toolbar]

\* before any call
NoParams == Params("", "", "", Undef)

\* the variables a render closes over
Closure(id, w, h, el) == [id |-> id, width |-> w, height |-> h, element |-> el]
CurrentClosure == Closure(renderId, width, height, element)

Init ==
  /\ phase = "none"
  /\ element = NoElement
  /\ width = Undef
  /\ height = Undef
  /\ renderId = 0
  /\ dragRef = NoDrag
  /\ listeners = <<>>
  /\ rte \in Hosts
  /\ inserted = EmptyAttrs
  /\ edited = FALSE
  /\ downWidth = Undef
  /\ params = NoParams
  /\ url = ""
  /\ last = RanPlain("init", <<>>)

\* ------------------------------------------------------------ the renderer
\* the destructuring default: applies to undefined only
Default(v, d) == IF v.t = "undef" THEN d ELSE v

\* the iframe URL a render of element el shows
Src(el) ==
  buildTableauUrl(el.attrs.server.s, el.attrs.workbook.s, el.attrs.view.s,
                  Default(el.attrs.toolbar, Str("bottom")))

\* what a render of element el passes to buildTableauUrl
SrcParams(el) ==
  Params(el.attrs.server.s, el.attrs.workbook.s, el.attrs.view.s,
         Default(el.attrs.toolbar, Str("bottom")))

\* const src = buildTableauUrl({ server, workbook, view, toolbar })
RenderSrc(el) ==
  /\ params' = SrcParams(el)
  /\ url' = Src(el)

\* the first render of the widget for element el: the useState initialisers
Mount(el) ==
  /\ element' = el
  /\ IF el.type = PLUGIN_NAME
     THEN /\ phase' = "mounted"
          /\ width' = Default(el.attrs.width, Str(DEFAULT_WIDTH))
          /\ height' = OrElse(ToNumber(Default(el.attrs.height, Num(Px(DEFAULT_HEIGHT)))),
                              Num(Px(DEFAULT_HEIGHT)))
          /\ RenderSrc(el)
     ELSE /\ phase' = "foreign"
          /\ UNCHANGED <<width, height, params, url>>
  /\ renderId' = 0
  /\ dragRef' = NoDrag
  /\ listeners' = <<>>

\* a re-render of the mounted widget with local state w, h and props.element el
Rendered(w, h, el) ==
  /\ width' = w
  /\ height' = h
  /\ element' = el
  /\ RenderSrc(el)
  /\ renderId' = IF <<w, h, el>> # <<width, height, element>> THEN renderId + 1
                  ELSE renderId

\* SizedNode without the spread of element.attrs
SizedNodeAttrsDropped(el, w, h) ==
  [el EXCEPT !.attrs = [EmptyAttrs EXCEPT !.width = w, !.height = h]]

\* { ...element, attrs: { ...(element.attrs || {}), width: w, height: h } }
SizedNode(el, w, h) == [el EXCEPT !.attrs.width = w, !.attrs.height = h]

\* the host calls of persistSize(w, h) as the render of closure c defined it
persistSizeCalls(c, w, h) ==
  IF rte.updateNode THEN << Call("updateNode", SizedNode(c.element, w, h)) >> ELSE <<>>

\* persistSize(w, h) of closure c: setWidth, setHeight, rte.updateNode; the
\* host puts the node it is handed into the document and re-renders the
\* widget with it.  State setters of an unmounted component do nothing.
persistSize(c, w, h, op, measured) ==
  LET calls == persistSizeCalls(c, w, h) IN
  /\ last' = Ran(op, calls, "", FALSE, "", measured)
  /\ IF phase = "mounted"
     THEN Rendered(w, h, IF calls # <<>> THEN calls[1].node ELSE element)
     ELSE UNCHANGED <<width, height, element, renderId, params, url>>

\* ------------------------------------------------------------ host renders
\* the host renders a plugin node that is already in the document
HostMount(attrs) ==
  /\ phase = "none"
  /\ Mount(Node(PLUGIN_NAME, "n1", attrs))
  /\ last' = RanPlain("mount", <<>>)
  /\ UNCHANGED <<rte, inserted, edited, downWidth>>

ForeignNode == Node("paragraph", "p1", EmptyAttrs)

\* the host hands the renderer a node of another type: it renders the
\* children and nothing else
HostMountForeign ==
  /\ phase = "none"
  /\ Mount(ForeignNode)
  /\ last' = RanPlain("mountForeign", <<>>)
  /\ UNCHANGED <<rte, inserted, edited, downWidth>>

NotMountClosure(c) == c.id # 0

\* the useEffect cleanup: it was made by render 0 and removes the listeners
\* of render 0
EffectCleanup(ls) == SelectSeq(ls, NotMountClosure)

\* the host tears the widget down
Unmount ==
  /\ phase = "mounted"
  /\ Live
  /\ phase' = "unmounted"
  /\ listeners' = EffectCleanup(listeners)
  /\ last' = RanPlain("unmount", <<>>)
  /\ UNCHANGED <<element, width, height, renderId, dragRef, rte, inserted, edited,
                 downWidth, params, url>>

\* ------------------------------------------------------------- insert flow
\* whether a picker session takes the free-form path and ends one of its
\* three required prompts (server, workbook, view) with nothing: cancelled,
\* or an empty text
FreeForm(ans) ==
  LET n == IF ans.choice.k = "accept" THEN Num(Px(1))
           ELSE IF ans.choice.k = "cancel" THEN Num(0)
           ELSE StringToNumber(ans.choice.s)
  IN n.t = "nan" \/ n.n < Px(1) \/ n.n > Px(Len(PUBLIC_PRESETS))

EmptyAnswer(a, default) ==
  \/ a.k = "cancel"
  \/ a.k = "text" /\ a.s = ""
  \/ a.k = "accept" /\ default.t = "str" /\ default.s = ""

RequiredLeftEmpty(defaults, ans) ==
  /\ FreeForm(ans)
  /\ \/ EmptyAnswer(ans.server, defaults.server)
     \/ EmptyAnswer(ans.workbook, defaults.workbook)
     \/ EmptyAnswer(ans.view, defaults.view)

\* onClickCalls without the return on a null picker result
onClickCallsNoReturn(r) ==
  IF rte.insertNode THEN << Call("insertNode", NodeOfPicked(r.p)) >> ELSE <<>>

onClickCalls(r) ==
  IF r.k = "picked" /\ rte.insertNode
  THEN << Call("insertNode", NodeOfPicked(r.p)) >>
  ELSE <<>>

\* the toolbar button; the host renders the node it is handed
onClick(ans) ==
  LET r == openTableauPicker(EmptyAttrs, ans)
      calls == onClickCalls(r)
  IN /\ phase = "none"
     /\ last' = Ran("onClick", calls, r.k, RequiredLeftEmpty(EmptyAttrs, ans), "", Undef)
     /\ IF calls # <<>> /\ phase = "none"
        THEN /\ Mount([calls[1].node EXCEPT !.uid = "n1"])
             /\ inserted' = r.p
             /\ edited' = FALSE
        ELSE UNCHANGED <<phase, element, width, height, renderId, dragRef,
                         listeners, inserted, edited, params, url>>
     /\ UNCHANGED <<rte, downWidth>>

\* --------------------------------------------------------------- edit flow
\* { ...current, ...updated }
Merged(current, updated) ==
  [current EXCEPT !.type = updated.type, !.attrs = updated.attrs,
                  !.children = updated.children]

\* execCalls without the test of current's type
execCallsAnyType(current, r) ==
  LET updated == NodeOfPicked(r.p) IN
  IF r.k # "picked" THEN <<>>
  ELSE IF rte.updateNode
       THEN << Call("updateNode", Merged(current, updated)) >>
       ELSE IF rte.insertNode THEN << Call("insertNode", updated) >> ELSE <<>>

execCalls(current, r) ==
  LET updated == NodeOfPicked(r.p) IN
  IF r.k # "picked" THEN <<>>
  ELSE IF current.type = PLUGIN_NAME /\ rte.updateNode
       THEN << Call("updateNode", Merged(current, updated)) >>
       ELSE IF rte.insertNode THEN << Call("insertNode", updated) >> ELSE <<>>

\* the elements the host runs the exec handler for
ExecElements ==
  IF phase = "mounted" THEN {element}
  ELSE IF phase = "foreign" THEN {ForeignNode}
  ELSE IF phase = "none" THEN {NoElement} ELSE {}

\* Tableau.on("exec"); the host puts the node updateNode is handed into the
\* document and re-renders its widget
exec(current, ans) ==
  LET r == openTableauPicker(current.attrs, ans)
      calls == execCalls(current, r)
  IN /\ Live
     /\ last' = Ran("exec", calls, r.k, RequiredLeftEmpty(current.attrs, ans),
                   current.type, Undef)
     /\ IF calls # <<>> /\ calls[1].fn = "updateNode" /\ phase = "mounted"
           /\ current = element
        THEN /\ Rendered(width, height, calls[1].node)
             /\ edited' = TRUE
        ELSE UNCHANGED <<element, width, height, renderId, edited, params, url>>
     /\ UNCHANGED <<phase, dragRef, listeners, rte, inserted, downWidth>>

\* the Edit button: rte.exec(), by which the host runs the exec handler for
\* this node
edit(ans) ==
  /\ phase = "mounted"
  /\ rte.exec
  /\ exec(element, ans)

\* the Remove button; the host deletes the node and tears its widget down
remove ==
  /\ phase = "mounted"
  /\ Live
  /\ last' = RanPlain("remove",
                      IF rte.deleteNode THEN << Call("deleteNode", element) >> ELSE <<>>)
  /\ IF rte.deleteNode
     THEN /\ phase' = "unmounted"
          /\ listeners' = EffectCleanup(listeners)
     ELSE UNCHANGED <<phase, listeners>>
  /\ UNCHANGED <<element, width, height, renderId, dragRef, rte, inserted, edited,
                 downWidth, params, url>>

\* -------------------------------------------------------- resize controller
\* the listeners after window.addEventListener of closure c's pair: adding a
\* function that is already there changes nothing
AddListeners(ls, c) ==
  IF \E i \in 1..Len(ls) : ls[i].id = c.id THEN ls ELSE Append(ls, c)

\* the measurement a handler takes: only when the width it sees is no number
Measurements(w) == IF IsNumber(w) THEN {0} ELSE ContainerWidths

\* mousedown on the handle; the handler is bound whenever the widget is
\* rendered and does not look at dragRef.  The preview container exists
\* while the widget is mounted, so the ?? 0 of the measurement is not taken.
onDragStart(pt, m) ==
  LET startW == IF IsNumber(width) THEN width.n ELSE m IN
  /\ phase = "mounted"
  /\ Live
  /\ dragRef' = [set |-> TRUE, startX |-> pt[1], startY |-> pt[2],
                 startW |-> startW, startH |-> height.n]
  /\ listeners' = AddListeners(listeners, CurrentClosure)
  /\ downWidth' = width
  /\ last' = Ran("dragStart", <<>>, "", FALSE, "",
                 IF IsNumber(width) THEN Undef ELSE Num(m))
  /\ UNCHANGED <<phase, element, width, height, renderId, rte, inserted, edited,
                 params, url>>

nextW(d, pt) == MathMax(Px(MIN_WIDTH), MathRound(d.startW + (pt[1] - d.startX)))
nextH(d, pt) == MathMax(Px(MIN_HEIGHT), MathRound(d.startH + (pt[2] - d.startY)))

\* onDragMove committing each move through persistSize
onDragMovePersists(pt) ==
  /\ listeners # <<>>
  /\ dragRef.set
  /\ Live
  /\ persistSize(CurrentClosure, Num(nextW(dragRef, pt)), Num(nextH(dragRef, pt)),
                 "dragMove", Undef)
  /\ UNCHANGED <<phase, dragRef, listeners, rte, inserted, edited, downWidth>>

\* mousemove on window: every attached onDragMove runs, and each sets the
\* same values
onDragMove(pt) ==
  /\ listeners # <<>>
  /\ dragRef.set
  /\ Live
  /\ last' = RanPlain("dragMove", <<>>)
  /\ IF phase = "mounted"
     THEN Rendered(Num(nextW(dragRef, pt)), Num(nextH(dragRef, pt)), element)
     ELSE UNCHANGED <<element, width, height, renderId, params, url>>
  /\ UNCHANGED <<phase, dragRef, listeners, rte, inserted, edited, downWidth>>

\* the width onDragEnd of closure c commits; m is the container's measured
\* width, and containerRef.current is null once the widget is unmounted
finalW(c, m) ==
  IF IsNumber(c.width) THEN Num(MathMax(Px(MIN_WIDTH), c.width.n))
  ELSE IF phase = "mounted" THEN Num(m) ELSE Num(Px(END_WIDTH_FALLBACK))

finalH(c) == Num(MathMax(Px(MIN_HEIGHT), c.height.n))

\* the measurement the first attached onDragEnd takes, if it takes one
EndMeasurements ==
  IF listeners # <<>> /\ phase = "mounted" THEN Measurements(listeners[1].width)
  ELSE {0}

\* mouseup on window: the attached onDragEnd run in the order they were
\* added; the first finds dragRef set, commits, clears it and removes its own
\* pair; the others find it null and return
onDragEnd(m) ==
  LET c == listeners[1] IN
  /\ listeners # <<>>
  /\ dragRef.set
  /\ Live
  /\ persistSize(c, finalW(c, m), finalH(c), "dragEnd",
                 IF IsNumber(c.width) \/ phase # "mounted" THEN Undef ELSE Num(m))
  /\ dragRef' = NoDrag
  /\ listeners' = Tail(listeners)
  /\ UNCHANGED <<phase, rte, inserted, edited, downWidth>>

\* ------------------------------------------------------------ size controls
\* the width field's onChange
widthChange(v) ==
  LET t == Trim(v)
      n == StringToNumber(t)
      w == IF EndsWithPercent(t) THEN Str(t)
           ELSE IF n.t # "nan" THEN n ELSE width
  IN /\ phase = "mounted"
     /\ Live
     /\ Rendered(w, height, element)
     /\ last' = RanPlain("widthChange", <<>>)
     /\ UNCHANGED <<phase, dragRef, listeners, rte, inserted, edited, downWidth>>

blurWidth(w) ==
  IF IsNumber(w) THEN Num(MathMax(Px(MIN_WIDTH), MathRound(w.n)))
  ELSE OrElse(w, Str(DEFAULT_WIDTH))

\* the width field's onBlur
widthBlur ==
  /\ phase = "mounted"
  /\ Live
  /\ persistSize(CurrentClosure, blurWidth(width), height, "widthBlur", Undef)
  /\ UNCHANGED <<phase, dragRef, listeners, rte, inserted, edited, downWidth>>

\* the height field's onChange
heightChange(v) ==
  /\ phase = "mounted"
  /\ Live
  /\ Rendered(width, OrElse(StringToNumber(v), Num(Px(DEFAULT_HEIGHT))), element)
  /\ last' = RanPlain("heightChange", <<>>)
  /\ UNCHANGED <<phase, dragRef, listeners, rte, inserted, edited, downWidth>>

blurHeight(h) == Num(MathMax(Px(MIN_HEIGHT), h.n))

\* the height field's onBlur
heightBlur ==
  /\ phase = "mounted"
  /\ Live
  /\ persistSize(CurrentClosure, width, blurHeight(height), "heightBlur", Undef)
  /\ UNCHANGED <<phase, dragRef, listeners, rte, inserted, edited, downWidth>>

fitWidth == Str("100%")

\* the Fit button
setFitWidth ==
  /\ phase = "mounted"
  /\ Live
  /\ persistSize(CurrentClosure, fitWidth, height, "fitWidth", Undef)
  /\ UNCHANGED <<phase, dragRef, listeners, rte, inserted, edited, downWidth>>

HeightPresets == { PRESET_SMALL, PRESET_MEDIUM, PRESET_LARGE }

\* the 400px, 520px and 680px buttons
setHeightPreset(h) ==
  /\ phase = "mounted"
  /\ Live
  /\ persistSize(CurrentClosure, width, Num(Px(h)), "heightPreset", Undef)
  /\ UNCHANGED <<phase, dragRef, listeners, rte, inserted, edited, downWidth>>

\* ------------------------------------------------------------ specification
Next ==
  \/ \E attrs \in HostAttrs : HostMount(attrs)
  \/ HostMountForeign
  \/ Unmount
  \/ \E ans \in PickerAnswers : onClick(ans)
  \/ \E current \in ExecElements, ans \in PickerAnswers : exec(current, ans)
  \/ \E ans \in PickerAnswers : edit(ans)
  \/ remove
  \/ \E pt \in DownPoints, m \in Measurements(width) : onDragStart(pt, m)
  \/ \E pt \in Points : onDragMove(pt)
  \/ \E m \in EndMeasurements : onDragEnd(m)
  \/ \E v \in WidthInputs : widthChange(v)
  \/ widthBlur
  \/ \E v \in HeightInputs : heightChange(v)
  \/ heightBlur
  \/ setFitWidth
  \/ \E h \in HeightPresets : setHeightPreset(h)

Spec == Init /\ [][Next]_vars

\* ------------------------------------------- the URL builder on its own
\* the arguments buildTableauUrl is called with: servers with no, one and two
\* trailing slashes, names with characters that need encoding, and every
\* ToolbarPos as well as none
BuildServers == { "", "https://t.example", "https://t.example/", "https://t.example//" }
BuildWorkbooks == { "Superstore_116", "Sales 2024", "a/b&c" }
BuildViews == { "Overview", "KPI/Q1", "50%=x" }
BuildToolbars == { Undef, Str("bottom"), Str("top"), Str("hidden") }

BuildInit ==
  /\ params \in { Params(sv, wb, vw, tb) : sv \in BuildServers, wb \in BuildWorkbooks,
                                          vw \in BuildViews, tb \in BuildToolbars }
  /\ url = ""
  /\ phase = "none"
  /\ element = NoElement
  /\ width = Undef
  /\ height = Undef
  /\ renderId = 0
  /\ dragRef = NoDrag
  /\ listeners = <<>>
  /\ rte = Host(TRUE, TRUE, TRUE, TRUE)
  /\ inserted = EmptyAttrs
  /\ edited = FALSE
  /\ downWidth = Undef
  /\ last = RanPlain("init", <<>>)

\* one call of buildTableauUrl
build ==
  /\ url = ""
  /\ url' = buildTableauUrl(params.server, params.workbook, params.view, params.toolbar)
  /\ last' = RanPlain("build", <<>>)
  /\ UNCHANGED <<phase, element, width, height, renderId, dragRef, listeners, rte,
                 inserted, edited, downWidth, params>>

BuildNext == build

BuildSpec == BuildInit /\ [][BuildNext]_vars

\* ------------------------------------------------------------------ claims
\* the handlers that commit a size through persistSize
CommitOps == {"dragEnd", "widthBlur", "heightBlur", "fitWidth", "heightPreset"}

\* the last handler was a size commit that reached the host
Committed == last.op \in CommitOps /\ last.calls # <<>>

\* the node the last handler handed to the host
HandedNode == last.calls[1].node

IsPercent(v) == v.t = "str" /\ EndsWithPercent(v.s)
ValidWidth(v) == (v.t = "num" /\ v.n >= Px(MIN_WIDTH)) \/ IsPercent(v)
ValidHeight(v) == v.t = "num" /\ v.n >= Px(MIN_HEIGHT)

\* C1: the width and height a drag hands to updateNode at pointer-up are
\* numbers with width >= 240 and height >= 200, whatever the width before
\* the drag and whatever the container measures.
C1_DragCommitsAtLeastMinimum ==
  (last.op = "dragEnd" /\ last.calls # <<>>) =>
    /\ HandedNode.attrs.width.t = "num"
    /\ HandedNode.attrs.width.n >= Px(MIN_WIDTH)
    /\ ValidHeight(HandedNode.attrs.height)

\* C2: a step of the Fit button, on a host that has updateNode and a node
\* whose height attribute is a valid height, calls updateNode with width
\* "100%" and with the height attribute the node had before the step.
C2_FitWidthKeepsHeight ==
  [][ (last'.op = "fitWidth" /\ rte.updateNode /\ ValidHeight(element.attrs.height)) =>
        /\ Len(last'.calls) = 1
        /\ last'.calls[1].fn = "updateNode"
        /\ last'.calls[1].node.attrs.width = Str("100%")
        /\ last'.calls[1].node.attrs.height = element.attrs.height ]_vars

\* C3 as stated: the exec handler run for an element of another type, or for
\* no element, invokes no host callback at all.
C3_ForeignExecCallsNothing ==
  (last.op = "exec" /\ last.ctxType # PLUGIN_NAME) => last.calls = <<>>

\* C3 amended: the exec handler run for an element of another type, or for
\* no element, never invokes updateNode or deleteNode; it invokes insertNode,
\* once and with a new tableau_embed node, exactly when the picker returned a
\* result and insertNode is a function.
C3_ForeignExecOnlyInserts ==
  (last.op = "exec" /\ last.ctxType # PLUGIN_NAME) =>
    /\ Len(last.calls) <= 1
    /\ (last.calls # <<>>) <=> (last.picked = "picked" /\ rte.insertNode)
    /\ \A i \in 1..Len(last.calls) :
         /\ last.calls[i].fn = "insertNode"
         /\ last.calls[i].node.type = PLUGIN_NAME
         /\ last.calls[i].node.uid = ""

\* C3 witness: the exec handler ran for an element of another type and
\* called the host.
C3_Witness ==
  last.op = "exec" /\ last.ctxType = "paragraph" /\ last.calls # <<>>

\* C4: every size commit (drag end, width blur, height blur, fit width,
\* height preset) hands updateNode a width that is a number >= 240 or a
\* string ending in '%', and a height that is a number >= 200.
C4_CommitsAreClamped ==
  Committed =>
    ValidWidth(HandedNode.attrs.width) /\ ValidHeight(HandedNode.attrs.height)

\* C5: once the widget is torn down, none of its mousemove/mouseup listeners
\* is left on window.
C5_TeardownDetaches == phase = "unmounted" => listeners = <<>>

\* C6: while the widget is mounted, a listener pair is attached exactly when
\* dragRef holds state, and never more than one pair.
C6_OnePairWhileDragging ==
  phase = "mounted" =>
    /\ (listeners # <<>>) <=> dragRef.set
    /\ Len(listeners) <= 1

\* C7: on a host whose updateNode is no function, a size commit and the edit
\* flow on an existing plugin node invoke no host mutation callback.
C7_MissingUpdateIsNoOp ==
  ( /\ ~rte.updateNode
    /\ \/ last.op \in CommitOps
       \/ last.op = "exec" /\ last.ctxType = PLUGIN_NAME ) =>
    last.calls = <<>>

\* C8: while the node the insert flow made from the picker result P has not
\* been edited, every render of it shows the URL build(P.server, P.workbook,
\* P.view, P.toolbar), also after size commits.
C8_RoundTrip ==
  (phase = "mounted" /\ inserted # EmptyAttrs /\ ~edited) =>
    Src(element) = buildTableauUrl(inserted.server.s, inserted.workbook.s,
                                   inserted.view.s, inserted.toolbar)

\* C8 witness: a size commit has changed the width of a node the insert flow
\* made.
C8_Witness ==
  /\ phase = "mounted" /\ inserted # EmptyAttrs /\ ~edited
  /\ Committed
  /\ element.attrs.width # inserted.width
  /\ element.attrs.server = inserted.server

\* C9: a step of the insert flow or of the edit flow whose picker session
\* left server, workbook or view empty in the free-form path invokes no host
\* callback and leaves the node and the widget as they were.
C9_CancelAborts ==
  [][ (last'.op \in {"onClick", "exec"} /\ last'.leftEmpty) =>
        /\ last'.calls = <<>>
        /\ element' = element
        /\ phase' = phase ]_vars

\* C9 witness: the edit flow ran for the mounted plugin node and its picker
\* session left a required field empty.
C9_Witness ==
  /\ last.op = "exec" /\ last.leftEmpty /\ last.ctxType = PLUGIN_NAME
  /\ phase = "mounted"

\* C10: a mousedown while the width is a percentage takes the measured
\* container width as the baseline, and the mouseup of a drag whose
\* pre-drag width was a percentage commits the container width it measures
\* at that moment.
C10_PercentDragMeasures ==
  /\ (last.op = "dragStart" /\ IsPercent(downWidth)) =>
       (last.measured.t = "num" /\ dragRef.startW = last.measured.n)
  /\ (last.op = "dragEnd" /\ phase = "mounted" /\ IsPercent(downWidth)
        /\ last.calls # <<>>) =>
       (last.measured.t = "num" /\ HandedNode.attrs.width = last.measured)

\* how many times sub occurs in s
Occurrences(s, sub) ==
  Cardinality({ i \in 1..(Len(s) - Len(sub) + 1) : SubSeq(s, i, i + Len(sub) - 1) = sub })

\* the server with one trailing slash removed, if it has one
C11_ServerPart ==
  IF params.server = "" THEN ""
  ELSE IF CharAt(params.server, Len(params.server)) = "/"
       THEN SubSeq(params.server, 1, Len(params.server) - 1)
       ELSE params.server

C11_ToolbarSupplied == params.toolbar.t # "undef"

\* C11: what buildTableauUrl returns is the server with exactly one trailing
\* slash removed (if present), then /views/{encoded workbook}/{encoded view},
\* then ?:embed=y&:showVizHome=no, then &:toolbar={mode} exactly once if and
\* only if a toolbar mode was supplied.
C11_BuildShape ==
  (last.op = "build") =>
    /\ url = C11_ServerPart \o "/views/" \o encodeURIComponent(params.workbook)
               \o "/" \o encodeURIComponent(params.view)
               \o "?:embed=y&:showVizHome=no"
               \o (IF C11_ToolbarSupplied THEN "&:toolbar=" \o params.toolbar.s ELSE "")
    /\ Occurrences(url, "&:toolbar=") = (IF C11_ToolbarSupplied THEN 1 ELSE 0)
    /\ Occurrences(url, "?") = 1

\* C11 witness: a call with a server ending in two slashes, names that need
\* encoding and the toolbar hidden has returned.
C11_Witness ==
  /\ last.op = "build"
  /\ params = Params("https://t.example//", "Sales 2024", "KPI/Q1", Str("hidden"))
  /\ url = "https://t.example//views/Sales%202024/KPI%2FQ1?:embed=y&:showVizHome=no&:toolbar=hidden"

\* C12: a mouseup that follows a mousemove of a drag begun at a numeric width
\* W and height H hands updateNode the size shown live at that move:
\* width max(240, round(W + dx)) and height max(200, round(H + dy)) for the
\* move's deltas (dx, dy) from the mousedown position.
C12_DragCommitsLastMove ==
  [][ ( /\ last.op = "dragMove" /\ last'.op = "dragEnd"
        /\ phase = "mounted" /\ rte.updateNode /\ downWidth.t = "num" ) =>
        /\ Len(last'.calls) = 1
        /\ last'.calls[1].fn = "updateNode"
        /\ last'.calls[1].node.attrs.width = width
        /\ last'.calls[1].node.attrs.height = height
        /\ \E pt \in Points :
             /\ width = Num(MathMax(Px(MIN_WIDTH),
                                    MathRound(downWidth.n + (pt[1] - dragRef.startX))))
             /\ height = Num(MathMax(Px(MIN_HEIGHT),
                                     MathRound(dragRef.startH + (pt[2] - dragRef.startY)))) ]_vars

\* the last handler was the edit flow, and it replaced the mounted node's
\* attrs through updateNode, giving it a valid height
C13_HostUpdated ==
  /\ last.op = "exec" /\ phase = "mounted"
  /\ last.calls # <<>> /\ last.calls[1].fn = "updateNode"
  /\ ValidHeight(element.attrs.height)

\* C13: once the edit flow has updated the mounted node and the widget is
\* re-rendered, the size on display is the node's width and height, and a Fit
\* or height preset commit that follows writes the node's current value for
\* the dimension it does not change.
C13_ShowsCurrentAttrs ==
  [][ /\ C13_HostUpdated' =>
           /\ width' = element'.attrs.width
           /\ height' = element'.attrs.height
      /\ (C13_HostUpdated /\ rte.updateNode /\ last'.op = "fitWidth") =>
           last'.calls[1].node.attrs.height = element.attrs.height
      /\ (C13_HostUpdated /\ rte.updateNode /\ last'.op = "heightPreset") =>
           last'.calls[1].node.attrs.width = element.attrs.width ]_vars

\* C14: every node the insert flow or the edit flow hands to insertNode or
\* updateNode carries a height that is a number >= 200 and a width that is a
\* number >= 240 or a string ending in '%', whatever was typed into the
\* picker's width and height prompts.
C14_PickedSizesValid ==
  (last.op \in {"onClick", "exec"} /\ last.calls # <<>>) =>
    /\ ValidWidth(HandedNode.attrs.width)
    /\ ValidHeight(HandedNode.attrs.height)

\* C15: a mousemove during a drag invokes no host callback and leaves the
\* node, the URL on display, the drag state and the listeners as they were;
\* only the widget's local width and height (and so its render) change.
C15_MovesAreVisualOnly ==
  [][ (last'.op = "dragMove") =>
        /\ last'.calls = <<>>
        /\ element' = element
        /\ url' = url
        /\ UNCHANGED <<phase, dragRef, listeners, rte, inserted, edited>> ]_vars

\* C15 witness: on a host with updateNode, a mousemove has changed the size
\* on display while the node keeps its own.
C15_Witness ==
  /\ last.op = "dragMove" /\ phase = "mounted" /\ rte.updateNode
  /\ dragRef.set
  /\ width = Num(Px(600)) /\ height = Num(Px(700))
  /\ element.attrs.width = Num(Px(100)) /\ element.attrs.height = Num(Px(300))

\* C16: the node a size commit (drag end, width or height blur, fit width,
\* height preset) hands to updateNode equals the element rendered before the
\* commit in its type, its children and every attr but width and height.
C16_CommitsKeepOtherFields ==
  [][ (last'.op \in CommitOps /\ last'.calls # <<>>) =>
        /\ Len(last'.calls) = 1
        /\ last'.calls[1].fn = "updateNode"
        /\ [last'.calls[1].node EXCEPT !.attrs.width = element.attrs.width,
                                       !.attrs.height = element.attrs.height]
             = element ]_vars
====
